---- MODULE Spec2Model ----
(***************************************************************************)
(* Model of the self-hosted-runner audit of zizmor                         *)
(* (src/audit/self_hosted_runner.rs, SelfHostedRunner::audit).             *)
(*                                                                         *)
(* A label is a sequence of lexical pieces: the interpolation delimiters   *)
(* "${{" and "}}" are pieces of their own, every other piece is literal    *)
(* text.  Two labels are the same string iff they are the same sequence.   *)
(***************************************************************************)
EXTENDS Naturals, Sequences, FiniteSets

\* Bounds of the model: jobs per workflow, labels per runs-on declaration.
MaxJobs == 2
MaxLabels == 2

Open == "${{"
Close == "}}"

\* The literal compared against at line 69.
SelfHostedLabel == <<"self-hosted">>

ExprLabel == <<Open, " matrix.os ", Close>>
JoinedExprLabel == <<Open, " a ", Close, "-", Open, " b ", Close>>
PrefixedExprLabel == <<"linux-", Open, " a ", Close>>
SuffixedExprLabel == <<Open, " a ", Close, "-x64">>
UnclosedExprLabel == <<Open, " a ">>
SelfHostedGpuLabel == <<"self-hosted-gpu">>
UbuntuLabel == <<"ubuntu-latest">>

\* Labels that may stand first in a runs-on label list.
FirstLabels ==
    {SelfHostedLabel, SelfHostedGpuLabel, UbuntuLabel, ExprLabel, JoinedExprLabel,
     PrefixedExprLabel, SuffixedExprLabel, UnclosedExprLabel}

\* Labels that may follow the first one.
RestLabels == {SelfHostedLabel, ExprLabel}

\* Sequences over S of length at most n.
RECURSIVE SeqsUpTo(_, _)
SeqsUpTo(S, n) ==
    IF n = 0 THEN {<<>>}
    ELSE LET P == SeqsUpTo(S, n - 1)
         IN  P \cup {Append(p, s) : p \in {q \in P : Len(q) = n - 1}, s \in S}

\* Vec<String> of a RunsOn::Target: empty, or a first label and a tail.
TargetLabelSeqs ==
    {<<>>} \cup {<<f>> \o t : f \in FirstLabels, t \in SeqsUpTo(RestLabels, MaxLabels - 1)}

\* Vec<String> accompanying a RunsOn::Group.
GroupLabelSeqs ==
    {<<>>} \cup {<<f>> \o t : f \in {SelfHostedLabel, UbuntuLabel},
                              t \in SeqsUpTo(RestLabels, MaxLabels - 1)}

\* RunsOn, the tagged union matched at line 63.
RunsOn ==
    [tag : {"Target"}, labels : TargetLabelSeqs]
    \cup [tag : {"Group"}, group : {"gpu-pool"}, labels : GroupLabelSeqs]

\* Job, the tagged union destructured at line 59.
Jobs ==
    [kind : {"NormalJob"}, runs_on : RunsOn]
    \cup [kind : {"ReusableWorkflowCallJob"}, uses : {"org/repo/.github/workflows/ci.yml@v1"}]

\* The job lists workflow.jobs() can iterate over.
Workflows == SeqsUpTo(Jobs, MaxJobs)

NoRet == [tag |-> "Pending", findings |-> <<>>, errJob |-> 0]

VARIABLES
    pedantic,   \* self._state.config.pedantic
    workflow,   \* the jobs of the audited workflow, in iteration order
    pc,         \* "entry", "loop" or "returned"
    idx,        \* position of the for loop in workflow.jobs()
    results,    \* the local Vec of findings
    builds,     \* number of calls of FindingBuilder::build so far
    ret         \* the value audit returned

vars == <<pedantic, workflow, pc, idx, results, builds, ret>>

\* Variant of from_curly: a search for the delimiters anywhere in the label.
from_curly_Substring(label) ==
    /\ \E k \in 1..Len(label) : label[k] = Open
    /\ \E k \in 1..Len(label) : label[k] = Close

\* ExplicitExpr::from_curly(label).is_some(): the whole label is one
\* interpolation, "${{" first, "}}" last and no delimiter in between.
from_curly(label) ==
    /\ Len(label) >= 2
    /\ label[1] = Open
    /\ label[Len(label)] = Close
    /\ \A k \in 2..(Len(label) - 1) : label[k] \notin {Open, Close}

\* Self::finding().confidence(c).severity(s).add_location(
\*     job.location().with_keys(&["runs-on".into()]).annotated(a))
Finding(c, s, j, a) ==
    [ident |-> "self-hosted-runner", confidence |-> c, severity |-> s,
     job |-> j, keys |-> <<"runs-on">>, annotation |-> a]

\* Variant of MatchRunsOn: the literal test compares the whole label list.
MatchRunsOn_SoleLabel(runs_on, j) ==
    IF runs_on.tag = "Target"
    THEN IF runs_on.labels = <<>>
         THEN <<>>
         ELSE LET label == Head(runs_on.labels)
              IN  IF runs_on.labels = <<SelfHostedLabel>>
                  THEN <<Finding("High", "Unknown", j, "self-hosted runner used here")>>
                  ELSE IF from_curly(label)
                       THEN <<Finding("Low", "Unknown", j,
                                      "expression may expand into a self-hosted runner")>>
                       ELSE <<>>
    ELSE <<Finding("Low", "Unknown", j, "runner group implies self-hosted runner")>>

\* Variant of MatchRunsOn: a group's confidence follows its labels.
MatchRunsOn_GroupByLabels(runs_on, j) ==
    IF runs_on.tag = "Target"
    THEN IF runs_on.labels = <<>>
         THEN <<>>
         ELSE LET label == Head(runs_on.labels)
              IN  IF label = SelfHostedLabel
                  THEN <<Finding("High", "Unknown", j, "self-hosted runner used here")>>
                  ELSE IF from_curly(label)
                       THEN <<Finding("Low", "Unknown", j,
                                      "expression may expand into a self-hosted runner")>>
                       ELSE <<>>
    ELSE <<Finding(IF runs_on.labels # <<>> /\ Head(runs_on.labels) = SelfHostedLabel
                   THEN "High" ELSE "Low", "Unknown", j, "runner group implies self-hosted runner")>>

\* Variant of MatchRunsOn: the expression branch claims High confidence.
MatchRunsOn_ExprHigh(runs_on, j) ==
    IF runs_on.tag = "Target"
    THEN IF runs_on.labels = <<>>
         THEN <<>>
         ELSE LET label == Head(runs_on.labels)
              IN  IF label = SelfHostedLabel
                  THEN <<Finding("High", "Unknown", j, "self-hosted runner used here")>>
                  ELSE IF from_curly(label)
                       THEN <<Finding("High", "Unknown", j,
                                      "expression may expand into a self-hosted runner")>>
                       ELSE <<>>
    ELSE <<Finding("Low", "Unknown", j, "runner group implies self-hosted runner")>>

\* Variant of MatchRunsOn: the literal test looks at every label.
MatchRunsOn_AnyLabel(runs_on, j) ==
    IF runs_on.tag = "Target"
    THEN IF runs_on.labels = <<>>
         THEN <<>>
         ELSE LET label == Head(runs_on.labels)
              IN  IF \E k \in 1..Len(runs_on.labels) : runs_on.labels[k] = SelfHostedLabel
                  THEN <<Finding("High", "Unknown", j, "self-hosted runner used here")>>
                  ELSE IF from_curly(label)
                       THEN <<Finding("Low", "Unknown", j,
                                      "expression may expand into a self-hosted runner")>>
                       ELSE <<>>
    ELSE <<Finding("Low", "Unknown", j, "runner group implies self-hosted runner")>>

\* Variant of MatchRunsOn: an empty label list is flagged.
MatchRunsOn_EmptyFlagged(runs_on, j) ==
    IF runs_on.tag = "Target"
    THEN IF runs_on.labels = <<>>
         THEN <<Finding("Low", "Unknown", j, "self-hosted runner used here")>>
         ELSE LET label == Head(runs_on.labels)
              IN  IF label = SelfHostedLabel
                  THEN <<Finding("High", "Unknown", j, "self-hosted runner used here")>>
                  ELSE IF from_curly(label)
                       THEN <<Finding("Low", "Unknown", j,
                                      "expression may expand into a self-hosted runner")>>
                       ELSE <<>>
    ELSE <<Finding("Low", "Unknown", j, "runner group implies self-hosted runner")>>

\* Variant of MatchRunsOn: the group branch computes a severity.
MatchRunsOn_GroupSeverity(runs_on, j) ==
    IF runs_on.tag = "Target"
    THEN IF runs_on.labels = <<>>
         THEN <<>>
         ELSE LET label == Head(runs_on.labels)
              IN  IF label = SelfHostedLabel
                  THEN <<Finding("High", "Unknown", j, "self-hosted runner used here")>>
                  ELSE IF from_curly(label)
                       THEN <<Finding("Low", "Unknown", j,
                                      "expression may expand into a self-hosted runner")>>
                       ELSE <<>>
    ELSE <<Finding("Low", "Low", j, "runner group implies self-hosted runner")>>

\* The match on normal.runs_on for the job at position j: the findings the
\* iteration goes on to build (none when it continues or falls through).
MatchRunsOn(runs_on, j) ==
    IF runs_on.tag = "Target"
    THEN IF runs_on.labels = <<>>
         THEN <<>>
         ELSE LET label == Head(runs_on.labels)
              IN  IF label = SelfHostedLabel
                  THEN <<Finding("High", "Unknown", j, "self-hosted runner used here")>>
                  ELSE IF from_curly(label)
                       THEN <<Finding("Low", "Unknown", j,
                                      "expression may expand into a self-hosted runner")>>
                       ELSE <<>>
    ELSE <<Finding("Low", "Unknown", j, "runner group implies self-hosted runner")>>

Init ==
    /\ pedantic \in BOOLEAN
    /\ workflow = <<>>
    /\ pc = "entry"
    /\ idx = 0
    /\ results = <<>>
    /\ builds = 0
    /\ ret = NoRet

\* Variant of Entry: the pedantic gate is missing.
Entry_NoGate ==
    /\ pc = "entry"
    /\ \E w \in Workflows : workflow' = w
    /\ results' = <<>>
    /\ pc' = "loop"
    /\ idx' = 1
    /\ UNCHANGED <<pedantic, builds, ret>>

\* audit is called on a workflow: results = vec![], then the pedantic gate.
Entry ==
    /\ pc = "entry"
    /\ \E w \in Workflows : workflow' = w
    /\ results' = <<>>
    /\ IF ~pedantic
       THEN /\ pc' = "returned"
            /\ ret' = [tag |-> "Ok", findings |-> <<>>, errJob |-> 0]
            /\ idx' = idx
       ELSE /\ pc' = "loop"
            /\ idx' = 1
            /\ ret' = ret
    /\ UNCHANGED <<pedantic, builds>>

\* Variant of LoopBody: new findings go to the front of results.
LoopBody_Prepend ==
    /\ pc = "loop"
    /\ idx <= Len(workflow)
    /\ LET job == workflow[idx]
           fs == IF job.kind = "NormalJob" THEN MatchRunsOn(job.runs_on, idx) ELSE <<>>
       IN  IF fs = <<>>
           THEN /\ idx' = idx + 1
                /\ UNCHANGED <<pc, results, builds, ret>>
           ELSE /\ builds' = builds + 1
                /\ \E ok \in BOOLEAN :
                      IF ok
                      THEN /\ results' = fs \o results
                           /\ idx' = idx + 1
                           /\ UNCHANGED <<pc, ret>>
                      ELSE /\ pc' = "returned"
                           /\ ret' = [tag |-> "Err", findings |-> <<>>, errJob |-> idx]
                           /\ results' = <<>>
                           /\ idx' = idx
    /\ UNCHANGED <<pedantic, workflow>>

\* One iteration of `for job in workflow.jobs()`.  build(workflow) is the
\* Finding Builder collaborator: it succeeds or fails, and `?` returns the
\* failure from audit, dropping the local results.
LoopBody ==
    /\ pc = "loop"
    /\ idx <= Len(workflow)
    /\ LET job == workflow[idx]
           fs == IF job.kind = "NormalJob" THEN MatchRunsOn(job.runs_on, idx) ELSE <<>>
       IN  IF fs = <<>>
           THEN /\ idx' = idx + 1
                /\ UNCHANGED <<pc, results, builds, ret>>
           ELSE /\ builds' = builds + 1
                /\ \E ok \in BOOLEAN :
                      IF ok
                      THEN /\ results' = results \o fs
                           /\ idx' = idx + 1
                           /\ UNCHANGED <<pc, ret>>
                      ELSE /\ pc' = "returned"
                           /\ ret' = [tag |-> "Err", findings |-> <<>>, errJob |-> idx]
                           /\ results' = <<>>
                           /\ idx' = idx
    /\ UNCHANGED <<pedantic, workflow>>

\* The iterator is exhausted: Ok(results).
LoopExit ==
    /\ pc = "loop"
    /\ idx > Len(workflow)
    /\ pc' = "returned"
    /\ ret' = [tag |-> "Ok", findings |-> results, errJob |-> 0]
    /\ UNCHANGED <<pedantic, workflow, idx, results, builds>>

Next == Entry \/ LoopBody \/ LoopExit

Spec == Init /\ [][Next]_vars

(***************************************************************************)
(* Vocabulary of the properties.                                           *)
(***************************************************************************)

\* The findings audit holds so far, or has returned.
Out == IF pc = "returned" THEN ret.findings ELSE results

\* Job j has been iterated over and audit has not failed.
Handled(j) ==
    /\ pedantic
    /\ j \in 1..Len(workflow)
    /\ \/ pc = "loop" /\ j < idx
       \/ pc = "returned" /\ ret.tag = "Ok"

\* Positions in Out of the findings located at job j.
FindingsOf(j) == {k \in 1..Len(Out) : Out[k].job = j}

IsTarget(job) == job.kind = "NormalJob" /\ job.runs_on.tag = "Target"
IsGroup(job) == job.kind = "NormalJob" /\ job.runs_on.tag = "Group"
HasFirst(job) == IsTarget(job) /\ job.runs_on.labels # <<>>
First(job) == job.runs_on.labels[1]

HasDelimiter(label) == \E k \in 1..Len(label) : label[k] \in {Open, Close}

\* "${{", one piece of text, "}}".
WholeInterpolation(label) ==
    /\ Len(label) = 3
    /\ label[1] = Open
    /\ label[2] \notin {Open, Close}
    /\ label[3] = Close

OkReturn == pc = "returned" /\ ret.tag = "Ok"

(***************************************************************************)
(* Properties.                                                             *)
(***************************************************************************)

\* C1: with pedantic false, audit never enters the job loop and returns
\* Ok(vec![]) without a single call of build, whatever the workflow holds.
C1_GateReturnsEmpty ==
    ~pedantic =>
        /\ pc # "loop"
        /\ builds = 0
        /\ results = <<>>
        /\ pc = "returned" => ret = [tag |-> "Ok", findings |-> <<>>, errJob |-> 0]

\* C1 witness: a non-pedantic audit has returned on a workflow with a literal
\* self-hosted job and a runner-group job.
C1_Witness ==
    /\ ~pedantic
    /\ OkReturn
    /\ Len(workflow) = 2
    /\ HasFirst(workflow[1]) /\ First(workflow[1]) = SelfHostedLabel
    /\ IsGroup(workflow[2])

\* C2: with pedantic true, a handled job whose first label is exactly
\* self-hosted has exactly one finding, of confidence High, whatever follows.
C2_SelfHostedOneHigh ==
    \A j \in 1..Len(workflow) :
        (Handled(j) /\ HasFirst(workflow[j]) /\ First(workflow[j]) = SelfHostedLabel)
        => /\ Cardinality(FindingsOf(j)) = 1
           /\ \A k \in FindingsOf(j) : Out[k].confidence = "High"

\* C2 witness: audit returned the High finding of a job whose label list is
\* self-hosted followed by another label.
C2_Witness ==
    /\ pedantic
    /\ OkReturn
    /\ \E j \in 1..Len(workflow) :
          /\ HasFirst(workflow[j])
          /\ First(workflow[j]) = SelfHostedLabel
          /\ Len(workflow[j].runs_on.labels) > 1
          /\ \E k \in FindingsOf(j) : Out[k].confidence = "High"

\* C3: with pedantic true, a handled runner-group job has exactly one
\* finding, of confidence Low, whatever its group name and labels.
C3_GroupOneLow ==
    \A j \in 1..Len(workflow) :
        (Handled(j) /\ IsGroup(workflow[j]))
        => /\ Cardinality(FindingsOf(j)) = 1
           /\ \A k \in FindingsOf(j) : Out[k].confidence = "Low"

\* C3 witness: audit returned the Low finding of a runner-group job whose
\* accompanying labels start with self-hosted.
C3_Witness ==
    /\ pedantic
    /\ OkReturn
    /\ \E j \in 1..Len(workflow) :
          /\ IsGroup(workflow[j])
          /\ workflow[j].runs_on.labels # <<>>
          /\ workflow[j].runs_on.labels[1] = SelfHostedLabel
          /\ \E k \in FindingsOf(j) : Out[k].confidence = "Low"

\* C4: with pedantic true, a handled job whose first label is a whole
\* interpolation has exactly one finding, of confidence Low.
C4_ExprOneLow ==
    \A j \in 1..Len(workflow) :
        (Handled(j) /\ HasFirst(workflow[j]) /\ WholeInterpolation(First(workflow[j])))
        => /\ Cardinality(FindingsOf(j)) = 1
           /\ \A k \in FindingsOf(j) : Out[k].confidence = "Low"

\* C4 witness: audit returned the Low finding of a job whose first label is
\* ${{ matrix.os }}.
C4_Witness ==
    /\ pedantic
    /\ OkReturn
    /\ \E j \in 1..Len(workflow) :
          /\ HasFirst(workflow[j])
          /\ First(workflow[j]) = ExprLabel
          /\ \E k \in FindingsOf(j) : Out[k].confidence = "Low"

\* C5: with pedantic true, a job whose first label is literal text other
\* than self-hosted never has a finding, whatever the later labels are.
C5_OtherLiteralNoFinding ==
    \A j \in 1..Len(workflow) :
        (pedantic /\ HasFirst(workflow[j])
            /\ ~HasDelimiter(First(workflow[j]))
            /\ First(workflow[j]) # SelfHostedLabel)
        => FindingsOf(j) = {}

\* C5 witness: audit returned no finding for a handled job labelled
\* ubuntu-latest first and self-hosted second.
C5_Witness ==
    /\ pedantic
    /\ OkReturn
    /\ \E j \in 1..Len(workflow) :
          /\ IsTarget(workflow[j])
          /\ workflow[j].runs_on.labels = <<UbuntuLabel, SelfHostedLabel>>
          /\ FindingsOf(j) = {}

\* The jobs audit flags when every build succeeds.
Flagged(job) ==
    \/ IsGroup(job)
    \/ /\ HasFirst(job)
       /\ \/ First(job) = SelfHostedLabel
          \/ WholeInterpolation(First(job))

\* C6: a failing build costs only the failing job its finding: once audit
\* has returned, every other flagged job of the workflow, earlier or later,
\* has its finding in the returned sequence.
C6_FailureKeepsOtherJobs ==
    (pedantic /\ pc = "returned")
    => \A j \in 1..Len(workflow) :
          (Flagged(workflow[j]) /\ j # ret.errJob) => FindingsOf(j) # {}

\* C7: a finding of the Labeled case with confidence Low exists only for a
\* first label that is, as a whole, one interpolation; a first label that
\* merely contains delimiters (two interpolations joined by text, text before
\* or after an interpolation, an unclosed delimiter) has no finding.
C7_OnlyWholeInterpolationIsExpr ==
    \A j \in 1..Len(workflow) :
        (pedantic /\ HasFirst(workflow[j]))
        => /\ (\E k \in FindingsOf(j) : Out[k].confidence = "Low")
                 => WholeInterpolation(First(workflow[j]))
           /\ (HasDelimiter(First(workflow[j])) /\ ~WholeInterpolation(First(workflow[j])))
                 => FindingsOf(j) = {}

\* C7 witness: audit handled a job whose first label is two interpolations
\* joined by a hyphen, and returned the finding of another job only.
C7_Witness ==
    /\ pedantic
    /\ OkReturn
    /\ Len(Out) = 1
    /\ \E j \in 1..Len(workflow) :
          /\ HasFirst(workflow[j])
          /\ First(workflow[j]) = JoinedExprLabel
          /\ FindingsOf(j) = {}

\* C8: an iteration over a job with an empty label list builds nothing,
\* returns nothing and leaves results alone: the loop moves to the next job.
C8_EmptyLabelsContinue ==
    [][(/\ pc = "loop"
        /\ idx <= Len(workflow)
        /\ IsTarget(workflow[idx])
        /\ workflow[idx].runs_on.labels = <<>>)
       => (/\ pc' = "loop"
           /\ idx' = idx + 1
           /\ results' = results
           /\ builds' = builds
           /\ ret' = ret)]_vars

\* C8 witness: the loop went past a job with an empty label list and then
\* flagged the job after it.
C8_Witness ==
    /\ pedantic
    /\ OkReturn
    /\ Len(workflow) = 2
    /\ IsTarget(workflow[1])
    /\ workflow[1].runs_on.labels = <<>>
    /\ FindingsOf(1) = {}
    /\ FindingsOf(2) # {}

\* C9: every finding, held or returned, has severity Unknown and is located
\* at the runs-on key of a job of the workflow.
C9_SeverityUnknownAtRunsOn ==
    \A k \in 1..Len(Out) :
        /\ Out[k].severity = "Unknown"
        /\ Out[k].keys = <<"runs-on">>
        /\ Out[k].job \in 1..Len(workflow)

\* C9 witness: audit returned a High finding and a runner-group finding.
C9_Witness ==
    /\ OkReturn
    /\ Len(Out) = 2
    /\ Out[1].confidence = "High"
    /\ IsGroup(workflow[Out[2].job])

\* The jobs iterated over so far.
Done == IF pc = "loop" THEN idx - 1 ELSE Len(workflow)

\* C10: with pedantic true and no build failure, the findings are those of
\* the flagged normal jobs iterated over so far, one each, in job order;
\* reusable-workflow calls contribute none.
C10_OnePerFlaggedJobInOrder ==
    (pedantic /\ (pc = "loop" \/ OkReturn))
    => /\ Len(Out) = Cardinality({j \in 1..Done : Flagged(workflow[j])})
       /\ \A k \in 1..Len(Out) :
             /\ Out[k].job \in 1..Done
             /\ Flagged(workflow[Out[k].job])
             /\ workflow[Out[k].job].kind = "NormalJob"
       /\ \A k, l \in 1..Len(Out) : k < l => Out[k].job < Out[l].job

\* C10 witness: audit returned two findings, the first of job 1 and the
\* second of job 2.
C10_Witness ==
    /\ pedantic
    /\ OkReturn
    /\ Len(Out) = 2
    /\ Out[1].job = 1
    /\ Out[2].job = 2

====
